---- MODULE Spec2Model ----
(***************************************************************************)
(* pvz-service: pickup points (pvz), receptions and products kept in a     *)
(* relational store, served by HTTP handlers that run one goroutine per    *)
(* request.  A handler is a sequence of single store statements; the       *)
(* statements of concurrent requests interleave, and no handler runs in a  *)
(* transaction.  One action below is one store statement of one handler,   *)
(* together with the in-process code that precedes and follows it.  A      *)
(* statement fails only for a reason the tables decide (a foreign key      *)
(* without its row, an UPDATE or DELETE that finds no row) in Spec;        *)
(* FaultSpec adds statements that fail for a reason outside the tables     *)
(* (a cancelled request context, a lost connection).  SeqSpec and         *)
(* PairSpec send the requests one after another (PairSpec on up to         *)
(* MaxPairPvz pickup points), ListSpec adds GET /pvz on a populated pvz    *)
(* table, and AuthSpec has the public routes /register and /login, which   *)
(* touch the users table only.                                             *)
(***************************************************************************)
EXTENDS Integers, FiniteSets, Sequences, Bags, TLC

(* ---- bounds of the model ---- *)
MaxInFlight == 2
MaxPvz == 1
MaxReceptions == 2
MaxProducts == 3
MaxListPvz == 3
MaxPairPvz == 2

(* ---- program constants ---- *)
RoleEmployee == "employee"
RoleModerator == "moderator"
Roles == {RoleEmployee, RoleModerator}

\* the Cyrillic literals of the source, transliterated
Cities == {"Moskva", "Sankt-Peterburg", "Kazan"}
ProductTypes == {"elektronika", "odezhda", "obuv"}

StatusInProgress == "in_progress"
StatusClose == "close"

StatusOK == 200
StatusCreated == 201
StatusBadRequest == 400
StatusUnauthorized == 401
StatusForbidden == 403
StatusInternalServerError == 500

(* ---- request inputs ---- *)
(* pvz ids a request can name: 0 stands for a string that is empty or not  *)
(* a uuid, the other values for well-formed uuids (ReqPvzIDs below).       *)
BadPvzID == 0
\* "" stands for a body without the field
ReqCities == {"Moskva", "Tula", ""}
ReqTypes == {"elektronika", "mebel"}

(* GET /pvz: a query parameter is <<>> when the request has none, else the *)
(* sequence of its one value.                                              *)
ReqPages == {<<>>, <<-1>>, <<0>>, <<2>>}
ReqLimits == {<<>>, <<0>>, <<1>>, <<31>>}
\* startDate, endDate: none, malformed, well-formed
ReqDates == {"", "yesterday", "2025-01-01T00:00:01Z"}

DefaultPage == 1
DefaultLimit == 10
MaxLimit == 30

(* ---- Authorization header ---- *)
(* A token is the role in its claims and whether its signature and expiry  *)
(* stand (jwt.ParseWithClaims with the server's key).  A header is the     *)
(* sequence of its parts between blanks, <<>> for a request without the    *)
(* header.                                                                 *)
Token(role, valid) == [role |-> role, valid |-> valid]
Bearer(token) == <<"Bearer", token>>
ReqHeaders ==
    {<<>>, <<"Basic", Token(RoleEmployee, TRUE)>>,
     Bearer(Token(RoleEmployee, FALSE))}
        \cup {Bearer(Token(role, TRUE)) : role \in Roles}

VARIABLES
    pvz,        \* table pvz:       set of [id, city, registration_date]
    reception,  \* table reception: set of [id, datetime, pvz_id, status]
    product,    \* table product:   set of [id, datetime, type, reception_id]
    productIds, \* number of product uuids generated so far
    proc,       \* bag of the handler activations in flight (their locals)
    resp,       \* the response the last step wrote, NoResp if it wrote none
    deleteOk,   \* number of 200 responses of DeleteLastProduct so far
    users       \* table users:     set of [id, email, password_hash, role]

vars == <<pvz, reception, product, productIds, proc, resp, deleteOk, users>>
store == <<pvz, reception, product>>

\* the body of a response that is not a 200 of GET /pvz
NoBody == [total |-> 0, response |-> <<>>]

NoResp ==
    [op |-> "none", header |-> <<>>, role |-> "", pvzID |-> 0, arg |-> "",
     status |-> 0, body |-> NoBody]

\* the locals of a handler activation between two of its store statements;
\* late: a later timestamp than all before it has been written to the table
\* the activation inserts into, since the activation's first statement
Activation(pc, role, pvzID, receptionID, ptype) ==
    [pc |-> pc, role |-> role, pvzID |-> pvzID, reception |-> receptionID,
     product |-> 0, ptype |-> ptype, late |-> FALSE]

InFlight(pc) ==
    BagCardinality([h \in {g \in BagToSet(proc) : g.pc = pc} |-> proc[h]])

Max(S) == CHOOSE x \in S : \A y \in S : y <= x

\* the pvz ids a request can name: BadPvzID, the ids of the pickup points
\* registered, and, while fewer than MaxPvz are registered, well-formed
\* uuids that no pickup point has yet
ReqPvzIDs == 0..Max({MaxPvz} \cup {p.id : p \in pvz})

(* ---- time.Now() ---- *)
(* The timestamps of a table are compared only with timestamps of the same *)
(* table (ORDER BY datetime, ORDER BY registration_date), so a row carries *)
(* the rank of its timestamp among those written to its table.  time.Now() *)
(* never goes back.  An activation reads it after the round trip of its    *)
(* first statement, so it reads a value greater than every value read      *)
(* before that statement was issued; two activations that are both in      *)
(* flight can read the same value.                                         *)
PvzClock == Max({0} \cup {p.registration_date : p \in pvz})
ReceptionClock == Max({0} \cup {r.datetime : r \in reception})
ProductClock == Max({0} \cup {p.datetime : p \in product})

Now(h, clock) == IF h.late THEN {clock, clock + 1} ELSE {clock + 1}
NowFirst(clock) == {clock, clock + 1}

\* the activations in flight after pc's table got the timestamp now
Late(B, pc, now, clock) ==
    IF now > clock
    THEN BagOfAll(LAMBDA h : IF h.pc = pc THEN [h EXCEPT !.late = TRUE]
                             ELSE h, B)
    ELSE B

Start(h) == proc' = proc (+) SetToBag({h})
Finish(h) == proc (-) SetToBag({h})

(* ---- PVZQueries ---- *)
\* faulty variant: reception.pvz_id carries no foreign key
PVZExistsUnchecked(pvzID) == TRUE

PVZExists(pvzID) == \E p \in pvz : p.id = pvzID

\* faulty variant: one row per city, a second registration in a city
\* overwrites the registration date of the first
PVZQueriesCreatePVZUpsert(city, now) ==
    IF \E p \in pvz : p.city = city
    THEN {IF p.city = city THEN [p EXCEPT !.registration_date = now] ELSE p :
            p \in pvz}
    ELSE pvz \cup {[id |-> Cardinality(pvz) + 1, city |-> city,
                    registration_date |-> now]}

PVZQueriesCreatePVZ(city, now) ==
    pvz \cup {[id |-> Cardinality(pvz) + 1, city |-> city,
               registration_date |-> now]}

PVZListQuery(page, limit, startDate, endDate) ==
    [StartDate |-> startDate, EndDate |-> endDate, Page |-> page,
     Limit |-> limit]

\* binding tags "omitempty,min=1" and "omitempty,min=1,max=30": omitempty
\* ends the validation of a field whose value is zero
Valid(query) ==
    /\ query.Page # 0 => query.Page >= 1
    /\ query.Limit # 0 => query.Limit >= 1 /\ query.Limit <= MaxLimit

\* time.Parse(time.RFC3339, value): the well-formed strings of the model
\* and the instants they denote, on the scale of registration_date
RFC3339 == [value \in {"2025-01-01T00:00:01Z"} |-> 1]

TimeParse(value) ==
    IF value \in DOMAIN RFC3339
    THEN [err |-> FALSE, time |-> RFC3339[value]]
    ELSE [err |-> TRUE, time |-> 0]

\* the WHERE conditions of the page query
PageWhere(params) ==
    {p \in pvz :
        /\ (params.StartDate # "" /\ ~TimeParse(params.StartDate).err)
                => p.registration_date >= TimeParse(params.StartDate).time
        /\ (params.EndDate # "" /\ ~TimeParse(params.EndDate).err)
                => p.registration_date <= TimeParse(params.EndDate).time}

\* faulty variant: the count query takes no upper bound
CountWhereNoEnd(params) ==
    {p \in pvz :
        (params.StartDate # "" /\ ~TimeParse(params.StartDate).err)
            => p.registration_date >= TimeParse(params.StartDate).time}

\* the WHERE conditions of the count query
CountWhere(params) ==
    {p \in pvz :
        /\ (params.StartDate # "" /\ ~TimeParse(params.StartDate).err)
                => p.registration_date >= TimeParse(params.StartDate).time
        /\ (params.EndDate # "" /\ ~TimeParse(params.EndDate).err)
                => p.registration_date <= TimeParse(params.EndDate).time}

\* faulty variant: the offset is taken from the page number, not from the
\* number of pages before it
OffsetOfPage(params) == params.Page * params.Limit

Offset(params) == (params.Page - 1) * params.Limit

\* uint64(n) for a Go int n: n, or 2^64 + n for a negative n, as the pair of
\* the multiple of 2^64 and the rest
Uint64(n) == IF n < 0 THEN [wrap |-> 1, low |-> n] ELSE [wrap |-> 0, low |-> n]

\* ORDER BY registration_date DESC: the rows in any order that puts no row
\* before a younger one
OrderByRegistrationDate(rows) ==
    {s \in [1..Cardinality(rows) -> rows] :
        \A i, j \in DOMAIN s :
            i < j => s[i] # s[j]
                     /\ s[i].registration_date >= s[j].registration_date}

\* the page query: the result sets it can return; none when the statement
\* fails, which it does for an OFFSET or LIMIT of 2^64 - k (beyond bigint)
PVZQueriesGetPVZListPage(params) ==
    LET limit == Uint64(params.Limit)
        offset == Uint64(Offset(params))
    IN  IF limit.wrap # 0 \/ offset.wrap # 0
        THEN {}
        ELSE {SubSeq(s, offset.low + 1,
                     IF offset.low + limit.low < Len(s)
                     THEN offset.low + limit.low ELSE Len(s)) :
                s \in OrderByRegistrationDate(PageWhere(params))}

(* ---- ReceptionQueries ---- *)
OpenReceptions(pvzID) ==
    {r \in reception : r.pvz_id = pvzID /\ r.status = StatusInProgress}

\* faulty variant: the query filters on a status value no row carries
CheckOpenReceptionWrongStatus(pvzID) ==
    {r \in reception : r.pvz_id = pvzID /\ r.status = "open"} # {}

CheckOpenReception(pvzID) == OpenReceptions(pvzID) # {}

\* faulty variant: a closed reception of the pickup point is reopened instead of a
\* new row being inserted
CreateReceptionReuse(pvzID, now) ==
    IF \E r \in reception : r.pvz_id = pvzID /\ r.status = StatusClose
    THEN LET c == CHOOSE r \in reception :
                    r.pvz_id = pvzID /\ r.status = StatusClose
         IN  (reception \ {c}) \cup {[c EXCEPT !.status = StatusInProgress]}
    ELSE reception \cup {[id |-> Cardinality(reception) + 1, datetime |-> now,
                          pvz_id |-> pvzID, status |-> StatusInProgress]}

\* faulty variant: the insert adds no row when the pickup point has a reception in
\* progress
CreateReceptionUnique(pvzID, now) ==
    IF \E r \in reception : r.pvz_id = pvzID /\ r.status = StatusInProgress
    THEN reception
    ELSE reception \cup {[id |-> Cardinality(reception) + 1, datetime |-> now,
                          pvz_id |-> pvzID, status |-> StatusInProgress]}

CreateReception(pvzID, now) ==
    reception \cup {[id |-> Cardinality(reception) + 1, datetime |-> now,
                     pvz_id |-> pvzID, status |-> StatusInProgress]}

\* faulty variant: the query does not filter on pvz_id
GetLastOpenReceptionAnyPvz(pvzID) ==
    {r \in reception :
        /\ r.status = StatusInProgress
        /\ \A o \in reception :
              o.status = StatusInProgress => o.datetime <= r.datetime}

\* ORDER BY datetime DESC LIMIT 1: any row with the greatest datetime
GetLastOpenReception(pvzID) ==
    {r \in OpenReceptions(pvzID) :
        \A o \in OpenReceptions(pvzID) : o.datetime <= r.datetime}

\* faulty variant: the statement writes a status other than 'close'
CloseReceptionClosed(receptionID) ==
    {IF r.id = receptionID THEN [r EXCEPT !.status = "closed"] ELSE r :
        r \in reception}

\* faulty variant: the statement also sets datetime to the time of the close
CloseReceptionStamped(receptionID) ==
    {IF r.id = receptionID
     THEN [r EXCEPT !.status = StatusClose, !.datetime = ReceptionClock + 1]
     ELSE r : r \in reception}

CloseReception(receptionID) ==
    {IF r.id = receptionID THEN [r EXCEPT !.status = StatusClose] ELSE r :
        r \in reception}

\* faulty variant: the query does not filter on pvz_id
GetReceptionsOfAllPVZ(pvzID) ==
    {s \in [1..Cardinality(reception) -> reception] :
        \A i, j \in DOMAIN s :
            i < j => s[i] # s[j] /\ s[i].datetime >= s[j].datetime}

\* ORDER BY datetime DESC
GetReceptionsByPVZ(pvzID) ==
    LET rows == {r \in reception : r.pvz_id = pvzID}
    IN  {s \in [1..Cardinality(rows) -> rows] :
            \A i, j \in DOMAIN s :
                i < j => s[i] # s[j] /\ s[i].datetime >= s[j].datetime}

(* ---- ProductQueries ---- *)
ProductsOf(receptionID) == {p \in product : p.reception_id = receptionID}

\* faulty variant: the row is given to the reception created last, whatever
\* reception the handler resolved
AddProductToNewest(receptionID, productType, now) ==
    product \cup {[id |-> productIds + 1, datetime |-> now,
                   type |-> productType,
                   reception_id |-> Cardinality(reception)]}

AddProduct(receptionID, productType, now) ==
    product \cup {[id |-> productIds + 1, datetime |-> now,
                   type |-> productType, reception_id |-> receptionID]}

\* faulty variant: the query does not filter on reception_id
GetLastProductFromAnyReception(receptionID) ==
    {p \in product : \A o \in product : o.datetime <= p.datetime}

\* faulty variant: ORDER BY datetime ASC LIMIT 1
GetFirstProductFromReception(receptionID) ==
    {p \in ProductsOf(receptionID) :
        \A o \in ProductsOf(receptionID) : p.datetime <= o.datetime}

\* ORDER BY datetime DESC LIMIT 1: any row with the greatest datetime
GetLastProductFromReception(receptionID) ==
    {p \in ProductsOf(receptionID) :
        \A o \in ProductsOf(receptionID) : o.datetime <= p.datetime}

\* faulty variant: the driver reports no affected rows
RowsAffectedUnknown(productID) == 0

\* faulty variant: the number of affected rows is not looked at
RowsAffectedIgnored(productID) == 1

RowsAffected(productID) == Cardinality({p \in product : p.id = productID})

\* faulty variant: the statement deletes by the reception of the product
DeleteProductsOfReception(productID) ==
    {p \in product :
        \A d \in product : d.id = productID => p.reception_id # d.reception_id}

DeleteProduct(productID) == {p \in product : p.id # productID}

\* ORDER BY datetime DESC: the rows of the reception in any order that puts
\* no row before a younger one
GetProductsByReception(receptionID) ==
    {s \in [1..Cardinality(ProductsOf(receptionID)) ->
                ProductsOf(receptionID)] :
        \A i, j \in DOMAIN s :
            i < j => s[i] # s[j] /\ s[i].datetime >= s[j].datetime}

(* ---- AuthMiddleware ---- *)
\* faulty variant: the token's signature and expiry are not verified
ValidateTokenUnverified(token) == TRUE

ValidateToken(token) == token.valid

\* the status the middleware aborts the request with, or 0 and the role it
\* puts into the request context for the handlers that follow
AuthMiddleware(header) ==
    IF header = <<>>
    THEN [status |-> StatusUnauthorized, role |-> ""]
    ELSE IF Len(header) # 2 \/ header[1] # "Bearer"
    THEN [status |-> StatusUnauthorized, role |-> ""]
    ELSE IF ~ValidateToken(header[2])
    THEN [status |-> StatusUnauthorized, role |-> ""]
    ELSE [status |-> 0, role |-> header[2].role]

(* ---- responses ---- *)
\* the response of the first step of a request
RespondTo(header, op, role, pvzID, arg, status) ==
    resp' = [op |-> op, header |-> header, role |-> role, pvzID |-> pvzID,
             arg |-> arg, status |-> status, body |-> NoBody]

\* the response of a later step: the request passed the middleware, which
\* took the activation's role from the token of a Bearer header
Respond(op, role, pvzID, arg, status) ==
    RespondTo(Bearer(Token(role, TRUE)), op, role, pvzID, arg, status)

\* the response of a later step of GET /pvz
RespondList(role, status, body) ==
    resp' = [op |-> "GetPVZList", header |-> Bearer(Token(role, TRUE)),
             role |-> role, pvzID |-> 0, arg |-> "", status |-> status,
             body |-> body]

TypeOK ==
    /\ \A p \in pvz : p.id \in 1..Cardinality(pvz)
    /\ \A r \in reception : r.id \in 1..MaxReceptions
    /\ \A p \in product : p.id \in 1..MaxProducts
    /\ productIds \in 0..MaxProducts
    /\ deleteOk \in Nat
    /\ BagCardinality(proc) <= MaxInFlight

Init ==
    /\ pvz = {}
    /\ reception = {}
    /\ product = {}
    /\ productIds = 0
    /\ proc = EmptyBag
    /\ resp = NoResp
    /\ deleteOk = 0
    /\ users = {}

\* a new request is accepted while fewer than MaxInFlight are in flight
Accept == BagCardinality(proc) < MaxInFlight

(* ---- PVZHandler.CreatePVZ: POST /pvz ---- *)
\* faulty variant: the binding of the body does not restrict the city
CreatePVZAnyCity(cap) ==
    /\ Accept
    /\ Cardinality(pvz) < cap
    /\ \E header \in ReqHeaders :
        LET role == AuthMiddleware(header).role IN
        IF AuthMiddleware(header).status = StatusUnauthorized
        THEN /\ RespondTo(header, "CreatePVZ", "", 0, "", StatusUnauthorized)
             /\ UNCHANGED pvz
        ELSE IF role # RoleModerator
        THEN /\ RespondTo(header, "CreatePVZ", role, 0, "", StatusForbidden)
             /\ UNCHANGED pvz
        ELSE \E city \in ReqCities, now \in NowFirst(PvzClock) :
             /\ pvz' = PVZQueriesCreatePVZ(city, now)
             /\ RespondTo(header, "CreatePVZ", role, 0, city, StatusCreated)
    /\ UNCHANGED <<reception, product, productIds, proc, deleteOk, users>>

\* AuthMiddleware, RequireRole(moderator), binding of the body, role check,
\* PVZQueries.CreatePVZ; cap bounds the pvz table of the model
CreatePVZ(cap) ==
    /\ Accept
    /\ Cardinality(pvz) < cap
    /\ \E header \in ReqHeaders :
        LET role == AuthMiddleware(header).role IN
        IF AuthMiddleware(header).status = StatusUnauthorized
        THEN /\ RespondTo(header, "CreatePVZ", "", 0, "", StatusUnauthorized)
             /\ UNCHANGED pvz
        ELSE IF role # RoleModerator
        THEN /\ RespondTo(header, "CreatePVZ", role, 0, "", StatusForbidden)
             /\ UNCHANGED pvz
        ELSE \E city \in ReqCities :
             IF city \notin Cities
             THEN /\ RespondTo(header, "CreatePVZ", role, 0, city,
                               StatusBadRequest)
                  /\ UNCHANGED pvz
             ELSE \E now \in NowFirst(PvzClock) :
                  /\ pvz' = PVZQueriesCreatePVZ(city, now)
                  /\ RespondTo(header, "CreatePVZ", role, 0, city,
                               StatusCreated)
    /\ UNCHANGED <<reception, product, productIds, proc, deleteOk, users>>

(* ---- ReceptionHandler.CreateReception: POST /receptions ---- *)
\* faulty variant: the handler does not look at the role
CreateReceptionCheckAnyRole ==
    /\ Accept
    /\ \E header \in ReqHeaders :
        LET role == AuthMiddleware(header).role IN
        IF AuthMiddleware(header).status = StatusUnauthorized
        THEN /\ RespondTo(header, "CreateReception", "", 0, "",
                          StatusUnauthorized)
             /\ UNCHANGED proc
        ELSE \E pvzID \in ReqPvzIDs :
             IF pvzID = BadPvzID
             THEN /\ RespondTo(header, "CreateReception", role, pvzID, "",
                               StatusBadRequest)
                  /\ UNCHANGED proc
             ELSE IF CheckOpenReception(pvzID)
             THEN /\ RespondTo(header, "CreateReception", role, pvzID, "",
                               StatusBadRequest)
                  /\ UNCHANGED proc
             ELSE /\ Cardinality(reception) + InFlight("cr_insert")
                        < MaxReceptions
                  /\ Start(Activation("cr_insert", role, pvzID, 0, ""))
                  /\ resp' = NoResp
    /\ UNCHANGED <<store, productIds, deleteOk, users>>

\* AuthMiddleware, role check, binding, CheckOpenReception
CreateReceptionCheck ==
    /\ Accept
    /\ \E header \in ReqHeaders :
        LET role == AuthMiddleware(header).role IN
        IF AuthMiddleware(header).status = StatusUnauthorized
        THEN /\ RespondTo(header, "CreateReception", "", 0, "",
                          StatusUnauthorized)
             /\ UNCHANGED proc
        ELSE IF role # RoleEmployee
        THEN /\ RespondTo(header, "CreateReception", role, 0, "",
                          StatusForbidden)
             /\ UNCHANGED proc
        ELSE \E pvzID \in ReqPvzIDs :
             IF pvzID = BadPvzID
             THEN /\ RespondTo(header, "CreateReception", role, pvzID, "",
                               StatusBadRequest)
                  /\ UNCHANGED proc
             ELSE IF CheckOpenReception(pvzID)
             THEN /\ RespondTo(header, "CreateReception", role, pvzID, "",
                               StatusBadRequest)
                  /\ UNCHANGED proc
             ELSE /\ Cardinality(reception) + InFlight("cr_insert")
                        < MaxReceptions
                  /\ Start(Activation("cr_insert", role, pvzID, 0, ""))
                  /\ resp' = NoResp
    /\ UNCHANGED <<store, productIds, deleteOk, users>>

\* ReceptionQueries.CreateReception; a pvz_id without its pvz row violates
\* the foreign key and the statement fails
CreateReceptionInsert(h) ==
    /\ h.pc = "cr_insert"
    /\ IF PVZExists(h.pvzID)
       THEN \E now \in Now(h, ReceptionClock) :
            /\ reception' = CreateReception(h.pvzID, now)
            /\ proc' = Late(Finish(h), "cr_insert", now, ReceptionClock)
            /\ Respond("CreateReception", h.role, h.pvzID, "",
                       StatusCreated)
       ELSE /\ Respond("CreateReception", h.role, h.pvzID, "",
                       StatusInternalServerError)
            /\ proc' = Finish(h)
            /\ UNCHANGED reception
    /\ UNCHANGED <<pvz, product, productIds, deleteOk, users>>

(* ---- ReceptionHandler.CloseLastReception:                          ---- *)
(* ---- POST /pvz/:pvzId/close_last_reception (no role check)         ---- *)
\* AuthMiddleware, pvzId check, GetLastOpenReception
CloseLastReceptionGet ==
    /\ Accept
    /\ \E header \in ReqHeaders :
        LET role == AuthMiddleware(header).role IN
        IF AuthMiddleware(header).status = StatusUnauthorized
        THEN /\ RespondTo(header, "CloseLastReception", "", 0, "",
                          StatusUnauthorized)
             /\ UNCHANGED proc
        ELSE \E pvzID \in ReqPvzIDs :
             IF pvzID = BadPvzID
             THEN /\ RespondTo(header, "CloseLastReception", role, pvzID, "",
                               StatusBadRequest)
                  /\ UNCHANGED proc
             ELSE IF GetLastOpenReception(pvzID) = {}
             THEN /\ RespondTo(header, "CloseLastReception", role, pvzID, "",
                               StatusBadRequest)
                  /\ UNCHANGED proc
             ELSE \E r \in GetLastOpenReception(pvzID) :
                  /\ Start(Activation("cl_close", role, pvzID, r.id, ""))
                  /\ resp' = NoResp
    /\ UNCHANGED <<store, productIds, deleteOk, users>>

\* ReceptionQueries.CloseReception: UPDATE ... WHERE id = $1 RETURNING;
\* no row returned is an error
CloseLastReceptionClose(h) ==
    /\ h.pc = "cl_close"
    /\ IF \E r \in reception : r.id = h.reception
       THEN /\ reception' = CloseReception(h.reception)
            /\ Respond("CloseLastReception", h.role, h.pvzID, "", StatusOK)
       ELSE /\ Respond("CloseLastReception", h.role, h.pvzID, "",
                       StatusInternalServerError)
            /\ UNCHANGED reception
    /\ proc' = Finish(h)
    /\ UNCHANGED <<pvz, product, productIds, deleteOk, users>>

(* ---- ProductHandler.AddProduct: POST /products ---- *)
\* faulty variant: without a reception in progress the youngest reception of the
\* pickup point is used, whatever its status
AddProductGetAnyStatus ==
    /\ Accept
    /\ \E header \in ReqHeaders :
        LET role == AuthMiddleware(header).role IN
        IF AuthMiddleware(header).status = StatusUnauthorized
        THEN /\ RespondTo(header, "AddProduct", "", 0, "", StatusUnauthorized)
             /\ UNCHANGED proc
        ELSE IF role # RoleEmployee
        THEN /\ RespondTo(header, "AddProduct", role, 0, "", StatusForbidden)
             /\ UNCHANGED proc
        ELSE \E pvzID \in ReqPvzIDs, type \in ReqTypes :
             IF pvzID = BadPvzID \/ type \notin ProductTypes
             THEN /\ RespondTo(header, "AddProduct", role, pvzID, type,
                               StatusBadRequest)
                  /\ UNCHANGED proc
             ELSE IF {r \in reception : r.pvz_id = pvzID} = {}
             THEN /\ RespondTo(header, "AddProduct", role, pvzID, type,
                               StatusBadRequest)
                  /\ UNCHANGED proc
             ELSE \E r \in {x \in reception : x.pvz_id = pvzID} :
                  /\ \A o \in reception :
                        o.pvz_id = pvzID => o.datetime <= r.datetime
                  /\ productIds + InFlight("ap_insert") < MaxProducts
                  /\ Start(Activation("ap_insert", role, pvzID, r.id, type))
                  /\ resp' = NoResp
    /\ UNCHANGED <<store, productIds, deleteOk, users>>

\* AuthMiddleware, role check, binding, GetLastOpenReception, status check
AddProductGet ==
    /\ Accept
    /\ \E header \in ReqHeaders :
        LET role == AuthMiddleware(header).role IN
        IF AuthMiddleware(header).status = StatusUnauthorized
        THEN /\ RespondTo(header, "AddProduct", "", 0, "", StatusUnauthorized)
             /\ UNCHANGED proc
        ELSE IF role # RoleEmployee
        THEN /\ RespondTo(header, "AddProduct", role, 0, "", StatusForbidden)
             /\ UNCHANGED proc
        ELSE \E pvzID \in ReqPvzIDs, type \in ReqTypes :
             IF pvzID = BadPvzID \/ type \notin ProductTypes
             THEN /\ RespondTo(header, "AddProduct", role, pvzID, type,
                               StatusBadRequest)
                  /\ UNCHANGED proc
             ELSE IF GetLastOpenReception(pvzID) = {}
             THEN /\ RespondTo(header, "AddProduct", role, pvzID, type,
                               StatusBadRequest)
                  /\ UNCHANGED proc
             ELSE \E r \in GetLastOpenReception(pvzID) :
                  IF r.status # StatusInProgress
                  THEN /\ RespondTo(header, "AddProduct", role, pvzID, type,
                                    StatusBadRequest)
                       /\ UNCHANGED proc
                  ELSE /\ productIds + InFlight("ap_insert") < MaxProducts
                       /\ Start(Activation("ap_insert", role, pvzID, r.id,
                                           type))
                       /\ resp' = NoResp
    /\ UNCHANGED <<store, productIds, deleteOk, users>>

\* ProductQueries.AddProduct; a reception_id without its reception row
\* violates the foreign key and the statement fails
AddProductInsert(h) ==
    /\ h.pc = "ap_insert"
    /\ IF \E r \in reception : r.id = h.reception
       THEN \E now \in Now(h, ProductClock) :
            /\ product' = AddProduct(h.reception, h.ptype, now)
            /\ productIds' = productIds + 1
            /\ proc' = Late(Finish(h), "ap_insert", now, ProductClock)
            /\ Respond("AddProduct", h.role, h.pvzID, h.ptype,
                       StatusCreated)
       ELSE /\ Respond("AddProduct", h.role, h.pvzID, h.ptype,
                       StatusInternalServerError)
            /\ proc' = Finish(h)
            /\ UNCHANGED <<product, productIds>>
    /\ UNCHANGED <<pvz, reception, deleteOk, users>>

(* ---- ProductHandler.DeleteLastProduct:                             ---- *)
(* ---- POST /pvz/:pvzId/delete_last_product                          ---- *)
\* AuthMiddleware, role check, pvzId check, GetLastOpenReception, status
\* check
DeleteLastProductGet ==
    /\ Accept
    /\ \E header \in ReqHeaders :
        LET role == AuthMiddleware(header).role IN
        IF AuthMiddleware(header).status = StatusUnauthorized
        THEN /\ RespondTo(header, "DeleteLastProduct", "", 0, "",
                          StatusUnauthorized)
             /\ UNCHANGED proc
        ELSE IF role # RoleEmployee
        THEN /\ RespondTo(header, "DeleteLastProduct", role, 0, "",
                          StatusForbidden)
             /\ UNCHANGED proc
        ELSE \E pvzID \in ReqPvzIDs :
             IF pvzID = BadPvzID
             THEN /\ RespondTo(header, "DeleteLastProduct", role, pvzID, "",
                               StatusBadRequest)
                  /\ UNCHANGED proc
             ELSE IF GetLastOpenReception(pvzID) = {}
             THEN /\ RespondTo(header, "DeleteLastProduct", role, pvzID, "",
                               StatusBadRequest)
                  /\ UNCHANGED proc
             ELSE \E r \in GetLastOpenReception(pvzID) :
                  IF r.status # StatusInProgress
                  THEN /\ RespondTo(header, "DeleteLastProduct", role, pvzID,
                                    "", StatusBadRequest)
                       /\ UNCHANGED proc
                  ELSE /\ Start(Activation("dp_last", role, pvzID, r.id, ""))
                       /\ resp' = NoResp
    /\ UNCHANGED <<store, productIds, deleteOk, users>>

\* GetLastProductFromReception
DeleteLastProductLast(h) ==
    /\ h.pc = "dp_last"
    /\ IF GetLastProductFromReception(h.reception) = {}
       THEN /\ Respond("DeleteLastProduct", h.role, h.pvzID, "",
                       StatusBadRequest)
            /\ proc' = Finish(h)
       ELSE \E p \in GetLastProductFromReception(h.reception) :
            /\ proc' = Finish(h) (+)
                    SetToBag({[h EXCEPT !.pc = "dp_delete", !.product = p.id]})
            /\ resp' = NoResp
    /\ UNCHANGED <<store, productIds, deleteOk, users>>

\* ProductQueries.DeleteProduct: zero rows affected is an error
DeleteLastProductDelete(h) ==
    /\ h.pc = "dp_delete"
    /\ product' = DeleteProduct(h.product)
    /\ IF RowsAffected(h.product) = 0
       THEN /\ Respond("DeleteLastProduct", h.role, h.pvzID, "",
                       StatusInternalServerError)
            /\ UNCHANGED deleteOk
       ELSE /\ Respond("DeleteLastProduct", h.role, h.pvzID, "",
                       StatusOK)
            /\ deleteOk' = deleteOk + 1
    /\ proc' = Finish(h)
    /\ UNCHANGED <<pvz, reception, productIds, users>>

(* ---- PVZHandler.GetPVZList: GET /pvz ---- *)
\* AuthMiddleware, defaults, binding, the count query of
\* PVZQueries.GetPVZList
GetPVZListCount ==
    /\ Accept
    /\ \E header \in ReqHeaders :
        LET role == AuthMiddleware(header).role IN
        IF AuthMiddleware(header).status = StatusUnauthorized
        THEN /\ RespondTo(header, "GetPVZList", "", 0, "", StatusUnauthorized)
             /\ UNCHANGED proc
        ELSE \E page \in ReqPages, limit \in ReqLimits :
             LET p == IF page = <<>> THEN DefaultPage ELSE page[1]
                 l == IF limit = <<>> THEN DefaultLimit ELSE limit[1]
             IN  IF ~Valid(PVZListQuery(p, l, "", ""))
                 THEN /\ RespondTo(header, "GetPVZList", role, 0, "",
                                   StatusBadRequest)
                      /\ UNCHANGED proc
                 ELSE \E startDate \in ReqDates, endDate \in ReqDates :
                      LET query == PVZListQuery(p, l, startDate, endDate)
                      IN  /\ Start([pc |-> "ls_select", role |-> role,
                                    query |-> query,
                                    total |-> Cardinality(CountWhere(query)),
                                    late |-> FALSE])
                          /\ resp' = NoResp
    /\ UNCHANGED <<store, productIds, deleteOk, users>>

\* the page query of PVZQueries.GetPVZList; an empty page is answered at
\* once
GetPVZListSelect(h) ==
    /\ h.pc = "ls_select"
    /\ IF PVZQueriesGetPVZListPage(h.query) = {}
       THEN /\ RespondList(h.role, StatusInternalServerError, NoBody)
            /\ proc' = Finish(h)
       ELSE \E pvzList \in PVZQueriesGetPVZListPage(h.query) :
            IF Len(pvzList) = 0
            THEN /\ RespondList(h.role, StatusOK,
                                [total |-> h.total, response |-> <<>>])
                 /\ proc' = Finish(h)
            ELSE /\ proc' = Finish(h) (+) SetToBag({
                        [pc |-> "ls_receptions", role |-> h.role,
                         total |-> h.total, pvzList |-> pvzList, i |-> 1,
                         response |-> <<>>, late |-> FALSE]})
                 /\ resp' = NoResp
    /\ UNCHANGED <<store, productIds, deleteOk, users>>

\* the end of the loop body for pvzList[i]: the next pickup point, or the
\* response after the last one
GetPVZListAppend(h, receptionDetails) ==
    LET response == Append(h.response, [pvz |-> h.pvzList[h.i],
                                        receptions |-> receptionDetails])
    IN  IF h.i < Len(h.pvzList)
        THEN /\ proc' = Finish(h) (+) SetToBag({
                    [pc |-> "ls_receptions", role |-> h.role,
                     total |-> h.total, pvzList |-> h.pvzList,
                     i |-> h.i + 1, response |-> response, late |-> FALSE]})
             /\ resp' = NoResp
        ELSE /\ RespondList(h.role, StatusOK,
                            [total |-> h.total, response |-> response])
             /\ proc' = Finish(h)

\* GetReceptionsByPVZ for pvzList[i]
GetPVZListReceptions(h) ==
    /\ h.pc = "ls_receptions"
    /\ \E receptions \in GetReceptionsByPVZ(h.pvzList[h.i].id) :
        IF Len(receptions) = 0
        THEN GetPVZListAppend(h, <<>>)
        ELSE /\ proc' = Finish(h) (+) SetToBag({
                    [pc |-> "ls_products", role |-> h.role,
                     total |-> h.total, pvzList |-> h.pvzList, i |-> h.i,
                     response |-> h.response, receptions |-> receptions,
                     j |-> 1, receptionDetails |-> <<>>, late |-> FALSE]})
             /\ resp' = NoResp
    /\ UNCHANGED <<store, productIds, deleteOk, users>>

\* GetProductsByReception for receptions[j]
GetPVZListProducts(h) ==
    /\ h.pc = "ls_products"
    /\ \E products \in GetProductsByReception(h.receptions[h.j].id) :
        LET receptionDetails ==
                Append(h.receptionDetails,
                       [reception |-> h.receptions[h.j],
                        products |-> products])
        IN  IF h.j < Len(h.receptions)
            THEN /\ proc' = Finish(h) (+) SetToBag({
                        [h EXCEPT !.j = h.j + 1,
                                  !.receptionDetails = receptionDetails]})
                 /\ resp' = NoResp
            ELSE GetPVZListAppend(h, receptionDetails)
    /\ UNCHANGED <<store, productIds, deleteOk, users>>

Next ==
    \/ CreatePVZ(MaxPvz)
    \/ CreateReceptionCheck
    \/ \E h \in BagToSet(proc) : CreateReceptionInsert(h)
    \/ CloseLastReceptionGet
    \/ \E h \in BagToSet(proc) : CloseLastReceptionClose(h)
    \/ AddProductGet
    \/ \E h \in BagToSet(proc) : AddProductInsert(h)
    \/ DeleteLastProductGet
    \/ \E h \in BagToSet(proc) : DeleteLastProductLast(h)
    \/ \E h \in BagToSet(proc) : DeleteLastProductDelete(h)

Spec == Init /\ [][Next]_vars

(* ---- statements that fail ---- *)
(* A statement of a request whose context has been cancelled, or whose     *)
(* connection is lost, returns an error and has no effect; the handler     *)
(* answers with the status it has for an error of that query.              *)
\* the first statement of a request that got past the middleware, the role
\* check and the binding
FirstStatementFails ==
    /\ Accept
    /\ \/ \E city \in ReqCities \cap Cities :
            RespondTo(Bearer(Token(RoleModerator, TRUE)), "CreatePVZ",
                      RoleModerator, 0, city, StatusInternalServerError)
       \/ \E pvzID \in ReqPvzIDs \ {BadPvzID} :
            RespondTo(Bearer(Token(RoleEmployee, TRUE)), "CreateReception",
                      RoleEmployee, pvzID, "", StatusInternalServerError)
       \/ \E role \in Roles, pvzID \in ReqPvzIDs \ {BadPvzID} :
            RespondTo(Bearer(Token(role, TRUE)), "CloseLastReception", role,
                      pvzID, "", StatusBadRequest)
       \/ \E pvzID \in ReqPvzIDs \ {BadPvzID},
             type \in ReqTypes \cap ProductTypes :
            RespondTo(Bearer(Token(RoleEmployee, TRUE)), "AddProduct",
                      RoleEmployee, pvzID, type, StatusBadRequest)
       \/ \E pvzID \in ReqPvzIDs \ {BadPvzID} :
            RespondTo(Bearer(Token(RoleEmployee, TRUE)), "DeleteLastProduct",
                      RoleEmployee, pvzID, "", StatusBadRequest)
    /\ UNCHANGED <<store, productIds, proc, deleteOk, users>>

\* a later statement: CreateReception, CloseReception, AddProduct,
\* GetLastProductFromReception, DeleteProduct
StatementFails(h) ==
    /\ h.pc \in {"cr_insert", "cl_close", "ap_insert", "dp_last", "dp_delete"}
    /\ Respond(CASE h.pc = "cr_insert" -> "CreateReception"
                 [] h.pc = "cl_close" -> "CloseLastReception"
                 [] h.pc = "ap_insert" -> "AddProduct"
                 [] OTHER -> "DeleteLastProduct",
               h.role, h.pvzID, h.ptype,
               IF h.pc = "dp_last" THEN StatusBadRequest
               ELSE StatusInternalServerError)
    /\ proc' = Finish(h)
    /\ UNCHANGED <<store, productIds, deleteOk, users>>

FaultNext ==
    \/ Next
    \/ FirstStatementFails
    \/ \E h \in BagToSet(proc) : StatementFails(h)

FaultSpec == Init /\ [][FaultNext]_vars

(* ---- requests one after another ---- *)
\* a request is sent only after the one before it has been answered
Sequential == proc = EmptyBag

SeqNext ==
    \/ Sequential /\ CreatePVZ(MaxPvz)
    \/ Sequential /\ CreateReceptionCheck
    \/ \E h \in BagToSet(proc) : CreateReceptionInsert(h)
    \/ Sequential /\ CloseLastReceptionGet
    \/ \E h \in BagToSet(proc) : CloseLastReceptionClose(h)
    \/ Sequential /\ AddProductGet
    \/ \E h \in BagToSet(proc) : AddProductInsert(h)
    \/ Sequential /\ DeleteLastProductGet
    \/ \E h \in BagToSet(proc) : DeleteLastProductLast(h)
    \/ \E h \in BagToSet(proc) : DeleteLastProductDelete(h)

SeqSpec == Init /\ [][SeqNext]_vars

(* ---- requests one after another, up to MaxPairPvz pickup points ---- *)
PairNext ==
    \/ SeqNext
    \/ Sequential /\ CreatePVZ(MaxPairPvz)

PairSpec == Init /\ [][PairNext]_vars

(* ---- the service with its pickup points registered ---- *)
\* the empty pvz table and the tables that MaxListPvz calls of CreatePVZ
\* can leave: ids in the order of creation, registration dates that never
\* go back
PvzTables ==
    UNION {{{[id |-> i, city |-> "Moskva", registration_date |-> d[i]] :
                i \in 1..n} :
            d \in {e \in [1..n -> 0..n] :
                    /\ n > 0 => e[1] <= 1
                    /\ \A i \in 1..(n - 1) : e[i + 1] - e[i] \in {0, 1}}} :
           n \in {0, MaxListPvz}}

ListInit ==
    /\ pvz \in PvzTables
    /\ reception = {}
    /\ product = {}
    /\ productIds = 0
    /\ proc = EmptyBag
    /\ resp = NoResp
    /\ deleteOk = 0
    /\ users = {}

\* the requests of the step name pvz ids of the set ids only
NamesOnly(ids) ==
    /\ resp'.pvzID \in ids
    /\ \A h \in BagToSet(proc') : h.pvzID \in ids

\* of the pickup points registered, the requests other than GET /pvz name
\* the first MaxPvz
ListNext ==
    \/ SeqNext /\ NamesOnly(0..MaxPvz)
    \/ Sequential /\ GetPVZListCount
    \/ \E h \in BagToSet(proc) : GetPVZListSelect(h)
    \/ \E h \in BagToSet(proc) : GetPVZListReceptions(h)
    \/ \E h \in BagToSet(proc) : GetPVZListProducts(h)

ListSpec == ListInit /\ [][ListNext]_vars

(* ---- accounts: POST /register, POST /login ---- *)
(* The two routes are public and touch the users table only.               *)
\* request bodies: "nobody" is not an e-mail address, "" stands for a body
\* without the field, "abc" is shorter than the six characters Register
\* asks for, "admin" is not a role
ReqEmails == {"a@pvz.ru", "b@pvz.ru", "nobody"}
ReqPasswords == {"secret1", "secret2", "abc", ""}
ReqRoles == {RoleEmployee, RoleModerator, "admin"}

\* binding tag "email"
IsEmail(email) == email \in {"a@pvz.ru", "b@pvz.ru"}

MinPassword == 6

\* the message of both 401 answers of Login, transliterated
InvalidCredentials == "Nevernye uchetnye dannye"

\* bcrypt: a hash is made of the password and a salt drawn at random
Salts == {1, 2}
HashPassword(password) ==
    {[password |-> password, salt |-> salt] : salt \in Salts}

\* faulty variant: every password matches
CheckPasswordAny(password, hashedPassword) == TRUE

\* bcrypt.CompareHashAndPassword: hashes the password with the salt of the
\* stored hash and compares
CheckPassword(password, hashedPassword) ==
    [password |-> password, salt |-> hashedPassword.salt] = hashedPassword

\* SELECT 1 FROM users WHERE email = $1 LIMIT 1
GetUserByEmail(email) == \E u \in users : u.email = email

\* SELECT ... FROM users WHERE email = $1 LIMIT 1: the rows it can return
GetUserWithCredentials(email) == {u \in users : u.email = email}

\* faulty variant: the email column has no UNIQUE constraint
CreateUserNotUnique(email, passwordHash, role) ==
    [err |-> FALSE,
     users |-> users \cup {[id |-> Cardinality(users) + 1, email |-> email,
                            password_hash |-> passwordHash, role |-> role]}]

\* INSERT INTO users ... RETURNING id; the statement fails on an email that
\* a row has (email is UNIQUE)
CreateUser(email, passwordHash, role) ==
    IF \E u \in users : u.email = email
    THEN [err |-> TRUE, users |-> users]
    ELSE [err |-> FALSE,
          users |-> users \cup {[id |-> Cardinality(users) + 1,
                                 email |-> email,
                                 password_hash |-> passwordHash,
                                 role |-> role]}]

\* the response of a step of Register or Login
RespondAuth(op, email, password, role, status, body) ==
    resp' = [op |-> op, header |-> <<>>, role |-> role, pvzID |-> 0,
             arg |-> email, password |-> password, status |-> status,
             body |-> body]

\* AuthHandler.Register: binding, GetUserByEmail
RegisterGet ==
    /\ Accept
    /\ \E email \in ReqEmails, password \in ReqPasswords, role \in ReqRoles :
        IF ~IsEmail(email) \/ Len(password) < MinPassword \/ role \notin Roles
        THEN /\ RespondAuth("Register", email, password, role,
                            StatusBadRequest, NoBody)
             /\ UNCHANGED proc
        ELSE IF GetUserByEmail(email)
        THEN /\ RespondAuth("Register", email, password, role,
                            StatusBadRequest, NoBody)
             /\ UNCHANGED proc
        ELSE /\ Start([pc |-> "rg_create", role |-> role, email |-> email,
                       password |-> password, late |-> FALSE])
             /\ resp' = NoResp
    /\ UNCHANGED <<store, productIds, deleteOk, users>>

\* AuthHandler.Register: HashPassword, CreateUser
RegisterCreate(h) ==
    /\ h.pc = "rg_create"
    /\ \E passwordHash \in HashPassword(h.password) :
        LET created == CreateUser(h.email, passwordHash, h.role)
        IN  /\ users' = created.users
            /\ IF created.err
               THEN RespondAuth("Register", h.email, h.password, h.role,
                                StatusInternalServerError, NoBody)
               ELSE RespondAuth("Register", h.email, h.password, h.role,
                                StatusCreated,
                                [id |-> Cardinality(users) + 1,
                                 email |-> h.email, role |-> h.role])
    /\ proc' = Finish(h)
    /\ UNCHANGED <<store, productIds, deleteOk>>

\* AuthHandler.Login: binding, GetUserWithCredentials, CheckPassword,
\* GenerateToken (generated: whether the token could be signed)
Login ==
    /\ Accept
    /\ \E email \in ReqEmails, password \in ReqPasswords :
        IF ~IsEmail(email) \/ password = ""
        THEN RespondAuth("Login", email, password, "", StatusBadRequest,
                         NoBody)
        ELSE IF GetUserWithCredentials(email) = {}
        THEN RespondAuth("Login", email, password, "", StatusUnauthorized,
                         [message |-> InvalidCredentials])
        ELSE \E user \in GetUserWithCredentials(email) :
             IF ~CheckPassword(password, user.password_hash)
             THEN RespondAuth("Login", email, password, "",
                              StatusUnauthorized,
                              [message |-> InvalidCredentials])
             ELSE \E generated \in BOOLEAN :
                  IF ~generated
                  THEN RespondAuth("Login", email, password, "",
                                   StatusInternalServerError, NoBody)
                  ELSE RespondAuth("Login", email, password, "", StatusOK,
                                   [token |-> Token(user.role, TRUE)])
    /\ UNCHANGED <<store, productIds, proc, deleteOk, users>>

AuthNext ==
    \/ RegisterGet
    \/ \E h \in BagToSet(proc) : RegisterCreate(h)
    \/ Login

AuthSpec == Init /\ [][AuthNext]_vars


(***************************************************************************)
(* Properties                                                              *)
(***************************************************************************)
PvzIDs == 1..MaxPvz

\* the step is the first statement of a request that goes on as activation a
Started(a) == proc' = proc (+) SetToBag({a})

\* the step is the first statement of a request op on pvzID by an employee
\* and it answers the request
Answered(op, pvzID) ==
    /\ proc' = proc
    /\ resp'.op = op /\ resp'.pvzID = pvzID /\ resp'.role = RoleEmployee

\* the step is a later statement of a request op and it answers the request
Completed(op) == resp'.op = op /\ proc' # proc

ReceptionOf(receptionID) == CHOOSE r \in reception : r.id = receptionID

(* C1: for every pickup point, at most one of its receptions is in         *)
(* progress, in every reachable state.                                     *)
C1_SingleOpenReception ==
    \A P \in PvzIDs : Cardinality(OpenReceptions(P)) <= 1

(* C2: a product that a step removes has, in the state the step is taken   *)
(* in, the greatest creation time of the products of its reception.        *)
C2_TailOnlyDeletion ==
    [][\A p \in product \ product' :
          \A o \in ProductsOf(p.reception_id) : o.datetime <= p.datetime]_vars

(* C3: a product row is inserted only into a reception whose status is     *)
(* in_progress in the state the insert is executed in.                     *)
C3_InsertOnlyWhileOpen ==
    [][\A p \in product' \ product :
          ReceptionOf(p.reception_id).status = StatusInProgress]_vars

(* C4: a product row is removed only from a reception whose status is      *)
(* in_progress in the state the delete is executed in.                     *)
C4_DeleteOnlyWhileOpen ==
    [][\A p \in product \ product' :
          ReceptionOf(p.reception_id).status = StatusInProgress]_vars

(* C5: a closed reception stays in the table unchanged for ever, and a     *)
(* reception that is in progress after a step was in progress before it or *)
(* carries an id no row had before (closed rows are never reopened or      *)
(* reused).                                                                *)
C5_ClosedIsTerminal ==
    [][/\ \A r \in reception : r.status = StatusClose => r \in reception'
       /\ \A r \in reception' :
            r.status = StatusInProgress =>
                \/ r \in reception
                \/ \A o \in reception : o.id # r.id]_vars

\* a pickup point was reopened after a close: it has a closed reception
\* and a younger one in progress
C5_Witness ==
    \E r, o \in reception :
        /\ r.status = StatusClose /\ o.status = StatusInProgress
        /\ r.pvz_id = o.pvz_id /\ o.id > r.id

(* C6: an OpenReception for a pickup point that has a reception in         *)
(* progress is answered 400 by its first statement, goes no further and    *)
(* leaves the reception table as it is; and after every 201 of             *)
(* OpenReception the pickup point has a reception in progress, so the      *)
(* call that follows it is such a call.                                    *)
C6_OpenConflict ==
    [][/\ \A P \in PvzIDs :
            OpenReceptions(P) # {} =>
                /\ ~Started(Activation("cr_insert", RoleEmployee, P, 0, ""))
                /\ Answered("CreateReception", P) =>
                        /\ resp'.status = StatusBadRequest
                        /\ reception' = reception
       /\ resp'.op = "CreateReception" /\ resp'.status = StatusCreated =>
            Cardinality(reception') = Cardinality(reception) + 1
            /\ \E r \in reception' \ reception :
                    r.pvz_id = resp'.pvzID /\ r.status = StatusInProgress]_vars

\* a conflict answer: 400 for a well-formed request of an employee on a
\* pickup point whose reception is in progress
C6_Witness ==
    /\ resp.op = "CreateReception" /\ resp.status = StatusBadRequest
    /\ resp.role = RoleEmployee /\ resp.pvzID \in PvzIDs
    /\ Cardinality(OpenReceptions(resp.pvzID)) = 1
    /\ Cardinality(reception) = 1

(* C7: a CloseLastReception for a pickup point without a reception in      *)
(* progress is answered 400 by its first statement and changes nothing;    *)
(* and after every 200 of CloseLastReception the pickup point has no       *)
(* reception in progress, so the call that follows it is such a call.      *)
C7_CloseWithoutOpen ==
    [][/\ \A P \in PvzIDs :
            OpenReceptions(P) = {} =>
                /\ \A role \in Roles, id \in 1..MaxReceptions :
                        ~Started(Activation("cl_close", role, P, id, ""))
                /\ (resp'.op = "CloseLastReception" /\ resp'.pvzID = P
                        /\ proc' = proc) =>
                        /\ resp'.status = StatusBadRequest
                        /\ UNCHANGED store
       /\ \A P \in PvzIDs :
            (resp'.op = "CloseLastReception" /\ resp'.pvzID = P
                /\ resp'.status = StatusOK) =>
                OpenReceptions(P)' = {}]_vars

(* C8: the number of 200 answers of DeleteLastProduct equals the number of *)
(* product rows removed (rows inserted so far less rows present), so of    *)
(* two calls that resolve the same product only one is answered 200.       *)
C8_DeleteCountsRows == deleteOk = productIds - Cardinality(product)

\* two calls resolved the same product: one removed it and was answered
\* 200, the other one's delete statement found no row
C8_Witness ==
    /\ resp.op = "DeleteLastProduct"
    /\ resp.status = StatusInternalServerError
    /\ deleteOk = 1 /\ productIds = 1 /\ product = {}

(* C9: the insert of OpenReception does not depend on the receptions in    *)
(* the table: every request that passed the check and whose pickup point   *)
(* exists inserts one more reception in progress and is answered 201, also *)
(* when the pickup point has got a reception in progress by then.          *)
C9_InsertUnconditional ==
    [][\A P \in PvzIDs :
          (Completed("CreateReception") /\ resp'.pvzID = P /\ PVZExists(P)) =>
            /\ resp'.status = StatusCreated
            /\ Cardinality(OpenReceptions(P)') =
                    Cardinality(OpenReceptions(P)) + 1]_vars

\* two receptions in progress for one pickup point
C9_Witness ==
    \E P \in PvzIDs : Cardinality(OpenReceptions(P)) >= 2

(* C10: an AddProduct for a pickup point without a reception in progress   *)
(* is answered 400 by its first statement, goes no further and leaves the  *)
(* product table as it is.                                                 *)
C10_AddWithoutOpen ==
    [][\A P \in PvzIDs :
          OpenReceptions(P) = {} =>
            /\ \A id \in 1..MaxReceptions, type \in ProductTypes :
                    ~Started(Activation("ap_insert", RoleEmployee, P, id, type))
            /\ Answered("AddProduct", P) =>
                    /\ resp'.status = StatusBadRequest
                    /\ product' = product]_vars

\* 400 for a valid request of an employee on a pickup point whose last
\* reception was closed
C10_Witness ==
    /\ resp.op = "AddProduct" /\ resp.status = StatusBadRequest
    /\ resp.role = RoleEmployee /\ resp.pvzID \in PvzIDs
    /\ resp.arg \in ProductTypes
    /\ OpenReceptions(resp.pvzID) = {}
    /\ \E r \in reception : r.pvz_id = resp.pvzID /\ r.status = StatusClose

(* C11: when the GetLastProductFromReception statement of a               *)
(* DeleteLastProduct finds no product in the reception, the request is     *)
(* answered 400 by that step, it does not go on to a delete statement, and *)
(* the step removes nothing.                                               *)
C11_DeleteFromEmpty ==
    [][\A h \in BagToSet(proc) :
          (h.pc = "dp_last" /\ ProductsOf(h.reception) = {}) =>
            /\ \A id \in 1..MaxProducts :
                    proc' # Finish(h) (+)
                        SetToBag({[h EXCEPT !.pc = "dp_delete",
                                            !.product = id]})
            /\ (proc' = Finish(h) /\ resp'.op = "DeleteLastProduct") =>
                    /\ resp'.status = StatusBadRequest
                    /\ product' = product /\ deleteOk' = deleteOk]_vars

\* 400 for an employee's DeleteLastProduct on a pickup point whose only
\* reception is in progress and has no product, while another reception
\* has one
C11_Witness ==
    /\ resp.op = "DeleteLastProduct" /\ resp.status = StatusBadRequest
    /\ resp.role = RoleEmployee /\ resp.pvzID \in PvzIDs
    /\ \E r \in OpenReceptions(resp.pvzID) :
            /\ OpenReceptions(resp.pvzID) = {r}
            /\ ProductsOf(r.id) = {}
    /\ product # {}

\* the rows of s other than p, in the order of s
Without(s, p) == SelectSeq(s, LAMBDA x : x # p)

(* C12: when requests come one after another, a DeleteLastProduct answered *)
(* 200 has removed exactly one row, the product added last to the          *)
(* reception in progress of its pickup point; every listing of a           *)
(* reception's products (youngest first) after the step is a listing       *)
(* before it without that row, so of three products added the first two    *)
(* remain.                                                                 *)
C12_DeleteRemovesLast ==
    [][(resp'.op = "DeleteLastProduct" /\ resp'.status = StatusOK) =>
          \E p \in product :
            /\ product' = product \ {p}
            /\ \E r \in OpenReceptions(resp'.pvzID) : p.reception_id = r.id
            /\ \A o \in ProductsOf(p.reception_id) : o.id <= p.id
            /\ \A r \in reception :
                    GetProductsByReception(r.id)' =
                        {Without(s, p) : s \in GetProductsByReception(r.id)}
      ]_vars

\* three products were added to one reception and one was deleted: the
\* first two remain
C12_Witness ==
    /\ resp.op = "DeleteLastProduct" /\ resp.status = StatusOK
    /\ productIds = 3 /\ deleteOk = 1
    /\ {p.id : p \in product} = {1, 2}
    /\ \E r \in reception : \A p \in product : p.reception_id = r.id

EmployeeOps == {"CreateReception", "AddProduct", "DeleteLastProduct"}

(* C13: a request for OpenReception, AddProduct or DeleteLastProduct whose *)
(* token carries a role other than employee is answered 403 by its first   *)
(* step, whatever its body, and goes no further; a step that changes the   *)
(* reception table by an insert, or the product table, belongs to a        *)
(* request of an employee.                                                 *)
C13_EmployeeOnly ==
    [][/\ (resp'.op \in EmployeeOps /\ resp'.role \in Roles \ {RoleEmployee})
            => /\ resp'.status = StatusForbidden
               /\ UNCHANGED <<store, proc, productIds, deleteOk>>
       /\ \A h \in BagToSet(proc') :
            h.pc \in {"cr_insert", "ap_insert", "dp_last", "dp_delete"}
                => h.role = RoleEmployee
       /\ (Cardinality(reception') # Cardinality(reception)
                \/ product' # product)
            => resp'.op \in EmployeeOps /\ resp'.role = RoleEmployee]_vars

\* a moderator's AddProduct is answered 403 although the pickup point has
\* a reception in progress
C13_Witness ==
    /\ resp.op = "AddProduct" /\ resp.status = StatusForbidden
    /\ resp.role = RoleModerator
    /\ \E P \in PvzIDs : OpenReceptions(P) # {}

(* C14: a step that closes a reception belongs to a request of an          *)
(* employee.                                                               *)
C14_CloseEmployeeOnly ==
    [][(\E r \in reception :
            r.status = StatusInProgress
            /\ [r EXCEPT !.status = StatusClose] \in reception')
          => resp'.role = RoleEmployee]_vars

(* C15: a CreatePVZ request of a role other than moderator is answered 403 *)
(* and one of a moderator with a city outside the fixed set (or without    *)
(* city) 400, both without a change of the pvz table; a step that changes  *)
(* the table adds one row with the city of a moderator's request answered  *)
(* 201; every row of the table has a city of the fixed set.                *)
C15_ModeratorCreatesInCity ==
    [][/\ (resp'.op = "CreatePVZ" /\ resp'.role \in Roles \ {RoleModerator})
            => resp'.status = StatusForbidden /\ pvz' = pvz
       /\ (resp'.op = "CreatePVZ" /\ resp'.role = RoleModerator
                /\ resp'.arg \notin {"Moskva", "Sankt-Peterburg", "Kazan"})
            => resp'.status = StatusBadRequest /\ pvz' = pvz
       /\ pvz' # pvz =>
            /\ resp'.op = "CreatePVZ" /\ resp'.role = RoleModerator
            /\ resp'.status = StatusCreated
            /\ \E p \in pvz' \ pvz : pvz' = pvz \cup {p} /\ p.city = resp'.arg
       /\ \A p \in pvz' :
            p.city \in {"Moskva", "Sankt-Peterburg", "Kazan"}]_vars

\* a moderator's request with a city outside the set was answered 400 and
\* the table is empty
C15_Witness ==
    /\ resp.op = "CreatePVZ" /\ resp.status = StatusBadRequest
    /\ resp.role = RoleModerator /\ resp.arg = "Tula"
    /\ pvz = {}

\* a header that carries a token of the service that has not expired
ValidBearer(header) ==
    Len(header) = 2 /\ header[1] = "Bearer" /\ header[2].valid

(* C16: a request on one of the six protected routes whose Authorization   *)
(* header is missing, is not "Bearer <token>", or carries a token that     *)
(* does not verify, is answered 401 by its first step, which changes       *)
(* nothing and starts no handler activation; 401 is the answer to such     *)
(* requests only, and every activation in flight has the role of a token.  *)
C16_TokenRequired ==
    [][/\ (resp'.op # "none" /\ ~ValidBearer(resp'.header))
            => /\ resp'.status = StatusUnauthorized
               /\ UNCHANGED <<store, proc, productIds, deleteOk>>
       /\ resp'.status = StatusUnauthorized
            => /\ ~ValidBearer(resp'.header)
               /\ resp'.op \in {"CreatePVZ", "GetPVZList", "CreateReception",
                                "CloseLastReception", "AddProduct",
                                "DeleteLastProduct"}
       /\ \A h \in BagToSet(proc') : h.role \in Roles]_vars

\* GET /pvz with a token that does not verify was answered 401 while
\* pickup points are registered
C16_Witness ==
    /\ resp.op = "GetPVZList" /\ resp.status = StatusUnauthorized
    /\ resp.header = <<"Bearer", [role |-> RoleEmployee, valid |-> FALSE]>>
    /\ pvz # {}

(* C17: every GET /pvz request that has got to the store queries has       *)
(* page >= 1 and 1 <= limit <= 30.                                         *)
C17_PaginationInRange ==
    \A h \in BagToSet(proc) :
        h.pc = "ls_select" =>
            /\ h.query.Page >= 1
            /\ h.query.Limit >= 1 /\ h.query.Limit <= 30

\* the rows of the sequence s at the positions first..last that s has
Positions(s, first, last) ==
    SubSeq(s, first, IF last < Len(s) THEN last ELSE Len(s))

\* pvzList is a page of the request of h: the rows at the positions
\* (page-1)*limit+1 .. page*limit of the matching rows, youngest first
IsPage(h, pvzList) ==
    /\ Len(pvzList) <= h.query.Limit
    /\ \E s \in OrderByRegistrationDate(PageWhere(h.query)) :
            pvzList = Positions(s, (h.query.Page - 1) * h.query.Limit + 1,
                                h.query.Page * h.query.Limit)

(* C18: the page query of a GET /pvz request with page >= 1 returns the    *)
(* rows at the positions (page-1)*limit+1 .. page*limit of the matching    *)
(* rows ordered by registration date, youngest first, so at most limit     *)
(* rows; the total answered with them is the number of matching rows,      *)
(* whatever page and limit are.                                            *)
C18_PageAndTotal ==
    [][\A h \in BagToSet(proc) :
          (h.pc = "ls_select" /\ h.query.Page >= 1) =>
            /\ h.total = Cardinality(PageWhere(h.query))
            /\ \A g \in BagToSet(proc') :
                    (g.pc = "ls_receptions" /\ g.i = 1
                        /\ proc' = Finish(h) (+) SetToBag({g}))
                    => IsPage(h, g.pvzList) /\ g.total = h.total
            /\ (proc' = Finish(h) /\ resp'.op = "GetPVZList")
                    => /\ resp'.status = StatusOK
                       /\ IsPage(h, <<>>)
                       /\ resp'.body = [total |-> h.total,
                                        response |-> <<>>]]_vars

\* three pickup points registered at three different times; the answer is
\* the second youngest alone (page 2 of pages of 1) with total 3
C18_Witness ==
    /\ resp.op = "GetPVZList" /\ resp.status = StatusOK
    /\ Cardinality(pvz) = 3
    /\ \A p, q \in pvz : p.id < q.id => p.registration_date < q.registration_date
    /\ resp.body.total = 3
    /\ Len(resp.body.response) = 1
    /\ resp.body.response[1].pvz.id = 2

\* the value is a well-formed RFC 3339 date
WellFormed(value) == value \in DOMAIN RFC3339

\* the pickup points within the well-formed bounds of the query, the
\* bounds included
WithinBounds(query) ==
    {p \in pvz :
        /\ WellFormed(query.StartDate)
                => p.registration_date >= RFC3339[query.StartDate]
        /\ WellFormed(query.EndDate)
                => p.registration_date <= RFC3339[query.EndDate]}

(* C19: the count query and the page query of a GET /pvz request apply the *)
(* same date bounds: the total is the number of pickup points within the   *)
(* well-formed bounds (bounds included), every row of the page is one of   *)
(* them, and a page of at least that many rows from position 1 has them    *)
(* all; a malformed bound restricts neither and causes no error answer.    *)
C19_SameDateBounds ==
    [][\A h \in BagToSet(proc) :
          (h.pc = "ls_select" /\ h.query.Page >= 1) =>
            /\ h.total = Cardinality(WithinBounds(h.query))
            /\ \A g \in BagToSet(proc') :
                    (g.pc = "ls_receptions" /\ g.i = 1
                        /\ proc' = Finish(h) (+) SetToBag({g}))
                    => /\ \A k \in DOMAIN g.pvzList :
                            g.pvzList[k] \in WithinBounds(h.query)
                       /\ (h.query.Page = 1 /\ h.query.Limit >= h.total)
                            => {g.pvzList[k] : k \in DOMAIN g.pvzList}
                                    = WithinBounds(h.query)
            /\ (proc' = Finish(h) /\ resp'.op = "GetPVZList")
                    => /\ resp'.status = StatusOK
                       /\ (h.query.Page = 1 /\ h.query.Limit >= 1)
                            => WithinBounds(h.query) = {}]_vars

\* a request with a malformed startDate and a well-formed endDate has been
\* counted: some pickup points are within the end bound, one of them
\* registered at the bound itself, and some are not
C19_Witness ==
    \E h \in BagToSet(proc) :
        /\ h.pc = "ls_select"
        /\ h.query.StartDate = "yesterday" /\ WellFormed(h.query.EndDate)
        /\ h.total > 0 /\ h.total < Cardinality(pvz)
        /\ \E p \in pvz : p.registration_date = RFC3339[h.query.EndDate]

\* the step writes one row: an insert, the close of a reception, or the
\* delete of a product
OneRowWritten ==
    \/ /\ \E p \in pvz' \ pvz : pvz' = pvz \cup {p}
       /\ UNCHANGED <<reception, product>>
    \/ /\ \E r \in reception' \ reception :
            /\ reception' = reception \cup {r}
            /\ \A o \in reception : o.id # r.id
       /\ UNCHANGED <<pvz, product>>
    \/ /\ \E r \in reception :
            /\ r.status = StatusInProgress
            /\ reception' =
                    (reception \ {r}) \cup {[r EXCEPT !.status = StatusClose]}
       /\ UNCHANGED <<pvz, product>>
    \/ /\ \E p \in product' \ product : product' = product \cup {p}
       /\ UNCHANGED <<pvz, reception>>
    \/ /\ \E p \in product : product' = product \ {p}
       /\ UNCHANGED <<pvz, reception>>

(* C20: also when statements fail or requests are cancelled at any step, a *)
(* step that changes the store writes one row, is the last step of its     *)
(* request and answers it 200 or 201: no request has written before it     *)
(* fails, and none goes on to a second write.                              *)
C20_NoPartialState ==
    [][store' # store =>
          /\ OneRowWritten
          /\ resp'.status \in {StatusOK, StatusCreated}
          /\ \/ proc' = proc
             \/ BagCardinality(proc') = BagCardinality(proc) - 1]_vars

\* the INSERT of an AddProduct failed after another request had removed
\* the only product: the store has the reception and no product
C20_Witness ==
    /\ resp.op = "AddProduct" /\ resp.status = StatusInternalServerError
    /\ \E r \in reception : r.pvz_id = resp.pvzID
    /\ product = {} /\ deleteOk = 1

(* C21: a pickup point that is in the pvz table is in the table after      *)
(* every step, with the same id, city and registration date, and no other  *)
(* row has its id: no step modifies or deletes a pickup point, and the     *)
(* table only grows.                                                       *)
C21_PvzImmutable ==
    [][\A p \in pvz :
          /\ p \in pvz'
          /\ \A q \in pvz' : q.id = p.id => q = p]_vars

\* a second pickup point was registered later than the first, in the same
\* city, after a reception of the first had been closed
C21_Witness ==
    /\ resp.op = "CreatePVZ" /\ resp.status = StatusCreated
    /\ \E p, q \in pvz :
            /\ p.id = 1 /\ q.id = 2 /\ p.city = q.city
            /\ p.registration_date < q.registration_date
            /\ \E r \in reception : r.pvz_id = p.id /\ r.status = StatusClose

\* the pickup point P is registered and has no reception yet
Fresh(P) == PVZExists(P) /\ \A r \in reception : r.pvz_id # P

\* P has one reception, with the given status and n products
OneReception(P, status, n) ==
    \E r \in reception :
        /\ \A o \in reception : o.pvz_id = P => o = r
        /\ r.pvz_id = P /\ r.status = status
        /\ Cardinality({p \in product : p.reception_id = r.id}) = n

(* C22: when requests come one after another, every call of the workflow   *)
(* succeeds in the state the calls before it leave: a moderator's CreatePVZ *)
(* with a city of the set is answered 201 and its pickup point is fresh;   *)
(* an employee's OpenReception on a fresh pickup point is answered 201 and *)
(* leaves one reception in progress without products; each AddProduct of a *)
(* valid type on that reception with n products is answered 201 and leaves *)
(* it with n+1, the new one of the requested type; CloseLastReception is   *)
(* answered 200 and leaves the reception with status close and its n       *)
(* products.                                                               *)
C22_Workflow ==
    [][/\ (resp'.op = "CreatePVZ" /\ resp'.role = RoleModerator
                /\ resp'.arg \in Cities)
            => /\ resp'.status = StatusCreated
               /\ \E p \in pvz' \ pvz : Fresh(p.id)'
       /\ \A P \in PvzIDs :
            /\ Fresh(P) =>
                    /\ ~Answered("CreateReception", P)
                    /\ \A h \in BagToSet(proc) :
                          (h.pc = "cr_insert" /\ h.pvzID = P) =>
                            /\ resp'.op = "CreateReception"
                            /\ resp'.status = StatusCreated
                            /\ OneReception(P, StatusInProgress, 0)'
            /\ \A n \in 0..MaxProducts :
                  OneReception(P, StatusInProgress, n) =>
                    /\ Answered("AddProduct", P)
                            => resp'.arg \notin ProductTypes
                    /\ ~Answered("CloseLastReception", P)
                    /\ \A h \in BagToSet(proc) :
                          /\ (h.pc = "ap_insert" /\ h.pvzID = P) =>
                                /\ resp'.op = "AddProduct"
                                /\ resp'.status = StatusCreated
                                /\ OneReception(P, StatusInProgress, n + 1)'
                                /\ \E p \in product' \ product :
                                        p.type = h.ptype
                          /\ (h.pc = "cl_close" /\ h.pvzID = P) =>
                                /\ resp'.op = "CloseLastReception"
                                /\ resp'.status = StatusOK
                                /\ OneReception(P, StatusClose, n)'
                                /\ product' = product]_vars

\* the end of the workflow with N = 3: the pickup point has one reception,
\* closed, with the three products added, and no product was ever deleted
C22_Witness ==
    /\ resp.op = "CloseLastReception" /\ resp.status = StatusOK
    /\ resp.role = RoleEmployee
    /\ OneReception(resp.pvzID, StatusClose, 3)
    /\ productIds = 3 /\ deleteOk = 0

(* C23: no two rows of the users table have the same e-mail, however the   *)
(* steps of Register requests interleave; a step that answers a Register   *)
(* for an e-mail that a row has adds no row and answers 400 or 500; a step *)
(* that changes the table adds one row, with the e-mail of a Register it   *)
(* answers 201.                                                            *)
C23_UniqueEmail ==
    [][/\ \A u, v \in users' : u.email = v.email => u = v
       /\ (resp'.op = "Register"
                /\ \E u \in users : u.email = resp'.arg)
            => /\ users' = users
               /\ resp'.status \in {StatusBadRequest,
                                    StatusInternalServerError}
       /\ users' # users
            => /\ resp'.op = "Register" /\ resp'.status = StatusCreated
               /\ \E u \in users' \ users :
                    users' = users \cup {u} /\ u.email = resp'.arg]_vars

\* two Register requests for one e-mail both passed the check; the INSERT
\* of the second was refused and answered 500
C23_Witness ==
    /\ resp.op = "Register" /\ resp.status = StatusInternalServerError
    /\ Cardinality({u \in users : u.email = resp.arg}) = 1

\* a Login request whose body passes the binding
LoginBound == resp'.arg \in {"a@pvz.ru", "b@pvz.ru"} /\ resp'.password # ""

(* C24: Login answers 401 with one and the same message when no account    *)
(* has the e-mail and when the account's password is another one; the      *)
(* answer carries a token only with status 200 and only when an account    *)
(* has the e-mail and the password of the request, and the token has that  *)
(* account's role; Login changes nothing.                                  *)
C24_LoginUniform ==
    [][resp'.op = "Login" =>
          LET known == \E u \in users : u.email = resp'.arg
              right == \E u \in users :
                            /\ u.email = resp'.arg
                            /\ u.password_hash.password = resp'.password
          IN  /\ (LoginBound /\ ~known) =>
                    /\ resp'.status = StatusUnauthorized
                    /\ resp'.body = [message |-> "Nevernye uchetnye dannye"]
              /\ (LoginBound /\ known /\ ~right) =>
                    /\ resp'.status = StatusUnauthorized
                    /\ resp'.body = [message |-> "Nevernye uchetnye dannye"]
              /\ (resp'.status = StatusOK \/ "token" \in DOMAIN resp'.body) =>
                    /\ resp'.status = StatusOK
                    /\ \E u \in users :
                            /\ u.email = resp'.arg
                            /\ u.password_hash.password = resp'.password
                            /\ resp'.body = [token |-> [role |-> u.role,
                                                       valid |-> TRUE]]
              /\ UNCHANGED <<users, store, proc>>]_vars

\* 401 for the e-mail of an account with a password that is not the
\* account's, while another e-mail has no account
C24_Witness ==
    /\ resp.op = "Login" /\ resp.status = StatusUnauthorized
    /\ \E u \in users :
            u.email = resp.arg /\ u.password_hash.password # resp.password
    /\ \E email \in {"a@pvz.ru", "b@pvz.ru"} :
            \A u \in users : u.email # email

PairPvzIDs == 1..MaxPairPvz

(* C25: when requests come one after another, every pickup point has at    *)
(* most one reception in progress in every reachable state, whatever the   *)
(* calls were and whichever pickup points they named.                      *)
C25_SequentialSingleOpen ==
    \A P \in PairPvzIDs :
        Cardinality({r \in reception :
                        r.pvz_id = P /\ r.status = StatusInProgress}) <= 1

\* two pickup points: a reception of one was closed and a reception of
\* the other has just been opened
C25_Witness ==
    /\ resp.op = "CreateReception" /\ resp.status = StatusCreated
    /\ Cardinality(pvz) = 2
    /\ \E r, o \in reception :
            /\ r.status = StatusClose /\ o.status = StatusInProgress
            /\ r.pvz_id # o.pvz_id /\ o.pvz_id = resp.pvzID

(* C26: every 200 of CloseLastReception is the answer of a step that turns *)
(* a reception from in_progress to close, so no reception is reported      *)
(* closed by two calls.                                                    *)
C26_CloseOnce ==
    [][(resp'.op = "CloseLastReception" /\ resp'.status = StatusOK) =>
          \E r \in reception :
            /\ r.status = StatusInProgress
            /\ r \notin reception'
            /\ [r EXCEPT !.status = StatusClose] \in reception']_vars

ReceptionOps ==
    {"CreateReception", "CloseLastReception", "AddProduct",
     "DeleteLastProduct"}

C28_AddOwnedAndTyped ==
    [][/\ (resp'.op = "AddProduct" /\ resp'.status = StatusCreated) =>
            \E h \in BagToSet(proc), p \in product' \ product :
                /\ h.pc = "ap_insert"
                /\ h.pvzID = resp'.pvzID /\ h.ptype = resp'.arg
                /\ product' = product \cup {p}
                /\ p.reception_id = h.reception
                /\ p.type = resp'.arg
                /\ p.type \in {"elektronika", "odezhda", "obuv"}
                /\ \E r \in reception :
                        r.id = p.reception_id /\ r.pvz_id = resp'.pvzID
       /\ \A g \in BagToSet(proc') :
            (g.pc = "ap_insert" /\ Started(g)) =>
                \E r \in OpenReceptions(g.pvzID) :
                    /\ r.id = g.reception
                    /\ \A o \in OpenReceptions(g.pvzID) :
                            o.datetime <= r.datetime
       /\ \A p \in product, q \in product' : q.id = p.id => q = p]_vars

\* a product was added to the reception in progress of a pickup point
\* that has a closed reception with a product as well
C28_Witness ==
    /\ resp.op = "AddProduct" /\ resp.status = StatusCreated
    /\ \E r, o \in reception, p, q \in product :
            /\ r.pvz_id = resp.pvzID /\ r.status = StatusInProgress
            /\ o.pvz_id = resp.pvzID /\ o.status = StatusClose
            /\ p.reception_id = r.id /\ p.id = productIds
            /\ p.type = resp.arg
            /\ q.reception_id = o.id

(* C29: a step that answers CloseLastReception with 200 changes at most    *)
(* the status of one reception row, the one the request resolved for its   *)
(* pickup point: that row keeps its id, datetime and pvz_id, and every     *)
(* other reception, every product and every pickup point is as before.     *)
C29_CloseChangesStatusOnly ==
    [][(resp'.op = "CloseLastReception" /\ resp'.status = StatusOK) =>
          /\ \E h \in BagToSet(proc), r \in reception :
                /\ h.pc = "cl_close" /\ h.pvzID = resp'.pvzID
                /\ r.id = h.reception /\ r.pvz_id = h.pvzID
                /\ reception' =
                        (reception \ {r}) \cup
                            {[id |-> r.id, datetime |-> r.datetime,
                              pvz_id |-> r.pvz_id, status |-> StatusClose]}
          /\ product' = product
          /\ pvz' = pvz]_vars

\* a reception with products was closed while the pickup point has a
\* second reception in progress, which stays as it is
C29_Witness ==
    /\ resp.op = "CloseLastReception" /\ resp.status = StatusOK
    /\ \E r, o \in reception :
            /\ r.pvz_id = resp.pvzID /\ r.status = StatusClose
            /\ o.pvz_id = resp.pvzID /\ o.status = StatusInProgress
            /\ \E p \in product : p.reception_id = r.id

\* the receptions of the pickup point P and the products of these
ReceptionsAt(P) == {r \in reception : r.pvz_id = P}
ProductsAt(P) ==
    {p \in product : \E r \in ReceptionsAt(P) : r.id = p.reception_id}

\* the step is a step of a request that names the pickup point B
ActsOn(B) ==
    \/ resp'.op \in ReceptionOps /\ resp'.pvzID = B
    \/ \E h \in BagToSet(proc) \cup BagToSet(proc') : h.pvzID = B

\* what a step of a request on B does, as B's own rows decide it: the
\* first step of a request (none is in flight) and the later steps
DecidedAt(B) ==
    LET open == {r \in ReceptionsAt(B) : r.status = StatusInProgress}
        first == proc = EmptyBag
        answered == first /\ proc' = proc /\ resp'.pvzID = B
    IN  /\ (answered /\ resp'.op \in ReceptionOps) =>
                /\ resp'.status = StatusBadRequest
                /\ resp'.op = "CreateReception" => open # {}
                /\ resp'.op \in {"CloseLastReception", "DeleteLastProduct"}
                        => open = {}
                /\ resp'.op = "AddProduct" =>
                        (open = {} \/ resp'.arg \notin ProductTypes)
        /\ \A g \in BagToSet(proc') :
                (first /\ g.pvzID = B) =>
                    /\ g.pc = "cr_insert" => open = {}
                    /\ g.pc \in {"cl_close", "ap_insert", "dp_last"} =>
                            \E r \in open : r.id = g.reception
        /\ \A h \in BagToSet(proc) :
                h.pvzID = B =>
                    /\ h.pc = "cr_insert" =>
                            resp'.status = IF \E p \in pvz : p.id = B
                                           THEN StatusCreated
                                           ELSE StatusInternalServerError
                    /\ h.pc = "cl_close" => resp'.status = StatusOK
                    /\ h.pc = "ap_insert" => resp'.status = StatusCreated
                    /\ h.pc = "dp_last" =>
                            IF \E p \in ProductsAt(B) :
                                    p.reception_id = h.reception
                            THEN resp'.op = "none"
                            ELSE resp'.status = StatusBadRequest
                    /\ h.pc = "dp_delete" => resp'.status = StatusOK

(* C30: when requests come one after another, a step of an OpenReception,  *)
(* CloseLastReception, AddProduct or DeleteLastProduct that names the      *)
(* pickup point B leaves the receptions and products of every other        *)
(* pickup point as they are, and what it answers and whether it goes on    *)
(* is decided by the request and the rows of B alone.                      *)
C30_OtherPvzUntouched ==
    [][\A B \in PairPvzIDs :
          ActsOn(B) =>
            /\ \A A \in PairPvzIDs \ {B} :
                    /\ ReceptionsAt(A)' = ReceptionsAt(A)
                    /\ ProductsAt(A)' = ProductsAt(A)
            /\ DecidedAt(B)]_vars

\* a reception was opened on pickup point 2 while pickup point 1 has a
\* reception in progress with a product
C30_Witness ==
    /\ resp.op = "CreateReception" /\ resp.status = StatusCreated
    /\ resp.pvzID = 2
    /\ \E r \in ReceptionsAt(1) :
            r.status = StatusInProgress /\ ProductsAt(1) # {}
    /\ \E r \in ReceptionsAt(2) : r.status = StatusInProgress

(* C31: a CloseLastReception, AddProduct or DeleteLastProduct resolves a   *)
(* reception in progress of its pickup point than which none has a later   *)
(* datetime; and a CloseLastReception answered 200 for a pickup point that *)
(* has had another reception in progress since before the resolved one was *)
(* opened takes the number of the pickup point's receptions in progress    *)
(* down by one.                                                            *)
C31_CloseOneOfMany ==
    [][/\ \A g \in BagToSet(proc') :
            (g.pc \in {"cl_close", "ap_insert", "dp_last"} /\ Started(g)) =>
                \E r \in OpenReceptions(g.pvzID) :
                    /\ r.id = g.reception
                    /\ \A o \in OpenReceptions(g.pvzID) :
                            o.datetime <= r.datetime
       /\ \A h \in BagToSet(proc) :
            (/\ h.pc = "cl_close" /\ proc' = Finish(h)
             /\ resp'.op = "CloseLastReception" /\ resp'.status = StatusOK
             /\ \E o \in OpenReceptions(h.pvzID) :
                    o.datetime < ReceptionOf(h.reception).datetime)
            => Cardinality(OpenReceptions(h.pvzID)') =
                    Cardinality(OpenReceptions(h.pvzID)) - 1]_vars

(* C32: when no request is in flight and the last answer is a 200 of       *)
(* CloseLastReception for a pickup point, a CreateReception of an employee *)
(* for that pickup point is not answered by its first statement (it goes   *)
(* on to its insert); and every CreateReception answered 201 adds one      *)
(* reception in progress with an id no reception had, to which no product  *)
(* is attached, and leaves every product attached to the reception it was  *)
(* attached to.                                                            *)
C32_OpenAfterClose ==
    [][/\ \A P \in PvzIDs :
            (/\ proc = EmptyBag
             /\ resp.op = "CloseLastReception" /\ resp.pvzID = P
             /\ resp.status = StatusOK)
            => ~Answered("CreateReception", P)
       /\ (Completed("CreateReception") /\ resp'.status = StatusCreated) =>
            \E r \in reception' \ reception :
                /\ reception' = reception \cup {r}
                /\ r.id \notin {o.id : o \in reception}
                /\ r.pvz_id = resp'.pvzID /\ r.status = StatusInProgress
                /\ \A p \in product' : p.reception_id # r.id
                /\ product' = product]_vars

(* C33: after every step each reception row carries the id of a pvz row    *)
(* and each product row the id of a reception row; and a CreateReception   *)
(* answered for a pvzId that no pvz row carries is answered with an error  *)
(* status and leaves table reception as it was.                            *)
C33_ReferencesExist ==
    [][/\ \A r \in reception' : \E p \in pvz' : p.id = r.pvz_id
       /\ \A p \in product' : \E r \in reception' : r.id = p.reception_id
       /\ (/\ resp'.op = "CreateReception"
           /\ \A p \in pvz : p.id # resp'.pvzID)
          => /\ resp'.status \in {StatusBadRequest, StatusUnauthorized,
                                  StatusForbidden, StatusInternalServerError}
             /\ reception' = reception]_vars

\* an employee's CreateReception for a well-formed pvzId that no pickup
\* point has is refused by the insert
C33_Witness ==
    /\ resp.op = "CreateReception" /\ resp.role = RoleEmployee
    /\ resp.pvzID # BadPvzID
    /\ \A p \in pvz : p.id # resp.pvzID
    /\ resp.status = StatusInternalServerError
    /\ reception = {}

\* the products of a reception, oldest first
Stack(receptionID) ==
    CHOOSE s \in [1..Cardinality(ProductsOf(receptionID)) ->
                    ProductsOf(receptionID)] :
        \A i, j \in DOMAIN s : i < j => s[i].datetime < s[j].datetime

\* the step answers an employee's request op for a pickup point whose
\* reception in progress is r
AnsweredFor(op, r) ==
    /\ resp'.op = op /\ resp'.role = RoleEmployee
    /\ r \in OpenReceptions(resp'.pvzID)

(* C34: when requests come one after another, no two products of a         *)
(* reception have the same datetime, and the products of a reception,      *)
(* oldest first, are a stack: an AddProduct answered 201 appends one new   *)
(* product of the requested type to the stack of the reception in progress *)
(* of its pickup point, a DeleteLastProduct for a pickup point whose       *)
(* reception in progress has products is answered 200 and removes the last *)
(* element of that stack, one whose reception in progress has no products  *)
(* is answered 400, a new reception starts with the empty stack, and no    *)
(* other step changes the stack of any reception; so the length of the     *)
(* stack is the number of AddProduct answered 201 less the number of       *)
(* DeleteLastProduct answered 200 for the reception.                       *)
C34_ProductsAreStack ==
    [][/\ \A p, q \in product' :
            (p.reception_id = q.reception_id /\ p.datetime = q.datetime)
                => p = q
       /\ \A r \in reception' :
            (\A o \in reception : o.id # r.id) => Stack(r.id)' = <<>>
       /\ \A r \in reception :
            IF AnsweredFor("AddProduct", r) /\ resp'.status = StatusCreated
            THEN \E new \in product' \ product :
                    /\ new.type = resp'.arg
                    /\ \A o \in product : o.id # new.id
                    /\ Stack(r.id)' = Append(Stack(r.id), new)
            ELSE IF AnsweredFor("DeleteLastProduct", r)
            THEN IF Stack(r.id) = <<>>
                 THEN /\ resp'.status = StatusBadRequest
                      /\ Stack(r.id)' = <<>>
                 ELSE /\ resp'.status = StatusOK
                      /\ Stack(r.id)' =
                            SubSeq(Stack(r.id), 1, Len(Stack(r.id)) - 1)
            ELSE Stack(r.id)' = Stack(r.id)]_vars

\* push, push, pop, push: the first and the third product are on the stack
C34_Witness ==
    /\ resp.op = "AddProduct" /\ resp.status = StatusCreated
    /\ productIds = 3 /\ deleteOk = 1
    /\ \E r \in OpenReceptions(resp.pvzID) :
            /\ Len(Stack(r.id)) = 2
            /\ Stack(r.id)[1].id = 1 /\ Stack(r.id)[2].id = 3

\* rows lists each element of the set all once, no element before one
\* with a later datetime
ListsYoungestFirst(rows, all) ==
    /\ Len(rows) = Cardinality(all)
    /\ {rows[i] : i \in DOMAIN rows} = all
    /\ \A i, j \in DOMAIN rows :
            i < j => rows[i].datetime >= rows[j].datetime

(* C35: when requests come one after another, in the body of a GET /pvz    *)
(* answered 200 the receptions of each element are the reception rows with *)
(* the element's pvz id, each once, youngest first, and the products of    *)
(* each of these receptions are the product rows with the reception's id,  *)
(* each once, youngest first; and the total of the answer is the value the *)
(* count query returned to the request, handed on unchanged from statement *)
(* to statement.                                                           *)
C35_ListNestsRows ==
    [][/\ (resp'.op = "GetPVZList" /\ resp'.status = StatusOK) =>
            \A k \in DOMAIN resp'.body.response :
                LET e == resp'.body.response[k] IN
                /\ ListsYoungestFirst(
                        [i \in DOMAIN e.receptions |->
                            e.receptions[i].reception],
                        {r \in reception : r.pvz_id = e.pvz.id})
                /\ \A i \in DOMAIN e.receptions :
                        ListsYoungestFirst(
                            e.receptions[i].products,
                            {p \in product : p.reception_id =
                                e.receptions[i].reception.id})
       /\ \A g \in BagToSet(proc') :
            (g.pc = "ls_select" /\ Started(g)) =>
                g.total = Cardinality(CountWhere(g.query))
       /\ \A h \in BagToSet(proc) :
            h.pc \in {"ls_select", "ls_receptions", "ls_products"} =>
                /\ \A g \in BagToSet(proc') :
                        proc' = Finish(h) (+) SetToBag({g})
                            => g.total = h.total
                /\ (proc' = Finish(h) /\ resp'.status = StatusOK)
                        => resp'.body.total = h.total]_vars

\* the answer lists three pickup points; one of them has two receptions,
\* the older one with two products, the other pickup points have none
C35_Witness ==
    /\ resp.op = "GetPVZList" /\ resp.status = StatusOK
    /\ resp.body.total = 3
    /\ Len(resp.body.response) = 3
    /\ \E k \in DOMAIN resp.body.response :
        LET e == resp.body.response[k] IN
        /\ Len(e.receptions) = 2
        /\ Len(e.receptions[2].products) = 2
        /\ e.receptions[2].products[1].id > e.receptions[2].products[2].id
        /\ e.receptions[1].reception.status = StatusInProgress
        /\ e.receptions[2].reception.status = StatusClose
        /\ \A m \in DOMAIN resp.body.response :
                m # k => resp.body.response[m].receptions = <<>>

(* C36: every GET /pvz request that has got to the page query has          *)
(* page >= 1 and 1 <= limit <= 30, its offset (page-1)*limit is not        *)
(* negative, and the uint64 conversions of its limit and of its offset     *)
(* keep their values.                                                      *)
C36_OffsetDoesNotWrap ==
    \A h \in BagToSet(proc) :
        h.pc = "ls_select" =>
            /\ h.query.Page >= 1
            /\ 1 <= h.query.Limit /\ h.query.Limit <= MaxLimit
            /\ Offset(h.query) >= 0
            /\ Uint64(Offset(h.query)) = [wrap |-> 0, low |-> Offset(h.query)]
            /\ Uint64(h.query.Limit) = [wrap |-> 0, low |-> h.query.Limit]

====
